---- MODULE Spec2Model ----
(***************************************************************************)
(* Model of the N2YO access layer of the satellite tracking MCP server:    *)
(* the N2YOApiClient constructor, makeRequest with its 429 retry loop and  *)
(* backoff sleep, and the adapter calls that build the endpoint paths.     *)
(***************************************************************************)
EXTENDS Integers, Sequences, FiniteSets, TLC

(* ------------------------------ bounds -------------------------------- *)

\* number of adapter calls issued on the client in one behaviour
MaxCalls == 2

Calls == 1..MaxCalls

\* the catalog ids the callers ask about (25544 is the ISS)
NoradIds == {25544}

(* ------------------------ values of the program ----------------------- *)

\* the value of an absent argument or environment variable
Undefined == "undefined"

\* credentials a caller may hand to the constructor
ApiKeys == {Undefined, "", "KEY-A"}

NoClient == [exists |-> FALSE]

NoError == [code |-> "none", text |-> "none", detail |-> <<>>]

NoResponse == [status |-> 0, data |-> [type |-> "none", text |-> ""]]

\* the marker the upstream expects in front of the credential
ApiKeyMarker == "/&apiKey="

ENDPOINTS ==
    [TLE |-> "/tle/", POSITIONS |-> "/positions/",
     VISUAL_PASSES |-> "/visualpasses/", RADIO_PASSES |-> "/radiopasses/",
     ABOVE |-> "/above/"]

ERROR_MESSAGES ==
    [MISSING_API_KEY |-> "N2YO API key is required",
     RATE_LIMIT_EXCEEDED |-> "Rate limit exceeded for N2YO API",
     INVALID_API_KEY |-> "Invalid N2YO API key",
     API_ERROR |-> "N2YO API error",
     NETWORK_ERROR |-> "Network error while connecting to N2YO API"]

McpError(code, text, detail) == [code |-> code, text |-> text, detail |-> detail]

\* field initialisers of N2YOApiClient
baseUrl == "https://api.n2yo.com/rest/v1/satellite"

retryDelay == 1000

maxRetries == 3

\* !apiKey : undefined and the empty string are falsy
IsFalsyKey(apiKey) == apiKey = Undefined \/ apiKey = ""

constructor_mutant(apiKey) ==
    [error |-> NoError,
     client |-> [exists |-> TRUE, apiKey |-> apiKey, baseUrl |-> baseUrl,
                 retryDelay |-> retryDelay, maxRetries |-> maxRetries]]

\* new N2YOApiClient(apiKey): the thrown error, or the constructed object
constructor(apiKey) ==
    IF IsFalsyKey(apiKey)
    THEN [error |-> McpError("InvalidParams", ERROR_MESSAGES.MISSING_API_KEY, <<>>),
          client |-> NoClient]
    ELSE [error |-> NoError,
          client |-> [exists |-> TRUE, apiKey |-> apiKey, baseUrl |-> baseUrl,
                      retryDelay |-> retryDelay, maxRetries |-> maxRetries]]

(* --------------------------- the upstream ----------------------------- *)

\* response bodies: axios hands a JSON body over as a parsed object and any
\* other body as a string; text is the body as it was on the wire
Payloads ==
    {[type |-> "object", text |-> "{info,data:1}"],
     [type |-> "object", text |-> "{info,data:2}"]}

ErrorBodies ==
    {[type |-> "string", text |-> "Service Unavailable"],
     [type |-> "object", text |-> "{error:quota}"]}

OtherStatuses == {404, 500}

\* what one HTTP attempt can end with; status 0 is an AxiosError without a
\* response (connection refused, DNS failure, the 10 s timeout)
UpstreamResponses ==
    {[status |-> 200, data |-> p] : p \in Payloads}
    \cup {[status |-> s, data |-> b] : s \in OtherStatuses \cup {401, 429}, b \in ErrorBodies}
    \cup {NoResponse}

\* axios' default validateStatus: 2xx resolves, everything else rejects
IsSuccess(resp) == resp.status >= 200 /\ resp.status < 300

\* String(x) as a template literal applies it
JSToString(data) ==
    IF data.type = "object" THEN "[object Object]" ELSE data.text

RECURSIVE Pow2(_)
Pow2(n) == IF n = 0 THEN 1 ELSE 2 * Pow2(n - 1)

(* ---------------------------- makeRequest ----------------------------- *)

\* `${endpoint}/&apiKey=${this.apiKey}`
FullEndpoint(endpoint, apiKey) == endpoint \o <<ApiKeyMarker, apiKey>>

RetryEndpoint_mutant(endpoint, fullEndpoint) == fullEndpoint

\* the endpoint argument of the recursive call
RetryEndpoint(endpoint, fullEndpoint) == endpoint

ShouldRetry_mutantLeq(resp, retryCount, cl) ==
    resp.status = 429 /\ retryCount <= cl.maxRetries

ShouldRetry_mutantNetwork(resp, retryCount, cl) ==
    (resp.status = 429 \/ resp.status = 0) /\ retryCount < cl.maxRetries

ShouldRetry_mutantAuth(resp, retryCount, cl) ==
    resp.status \in {429, 401} /\ retryCount < cl.maxRetries

ShouldRetry_mutantOffByOne(resp, retryCount, cl) ==
    resp.status = 429 /\ retryCount + 1 < cl.maxRetries

\* axiosError.response?.status === 429 && retryCount < this.maxRetries
ShouldRetry(resp, retryCount, cl) ==
    resp.status = 429 /\ retryCount < cl.maxRetries

BackoffDelay_mutant(retryCount, cl) == cl.retryDelay * (retryCount + 1)

\* this.retryDelay * Math.pow(2, retryCount)
BackoffDelay(retryCount, cl) == cl.retryDelay * Pow2(retryCount)

ResponseData_mutant(resp) == [type |-> "object", text |-> "AxiosResponse"]

\* return response.data as T
ResponseData(resp) == resp.data

\* the error thrown by the catch block once no retry is made
RequestError(resp) ==
    IF resp.status = 401
    THEN McpError("InvalidRequest", ERROR_MESSAGES.INVALID_API_KEY, <<>>)
    ELSE IF resp.status # 0
         THEN McpError("InternalError", ERROR_MESSAGES.API_ERROR,
                       <<resp.status, JSToString(resp.data)>>)
         ELSE McpError("InternalError", ERROR_MESSAGES.NETWORK_ERROR, <<>>)

(* ------------------------------ adapters ------------------------------ *)

\* an optional numeric argument: omitted, or supplied with a value
Omitted == <<>>

Given(v) == <<v>>

Default_mutant(x, d) == IF x = Omitted \/ x = Given(0) THEN d ELSE x[1]

\* x = d in a destructuring pattern: the default applies to undefined only
Default(x, d) == IF x = Omitted THEN d ELSE x[1]

\* `${n}` for a number n
NumStr(n) == ToString(n)

\* `${ENDPOINTS.TLE}/${noradId}`
getTLE_endpoint(noradId) == <<ENDPOINTS.TLE, "/", NumStr(noradId)>>

\* `${ENDPOINTS.POSITIONS}/${noradId}/${observer_lat}/${observer_lng}/${observer_alt}/${seconds}`
getPositions_endpoint(p) ==
    <<ENDPOINTS.POSITIONS, "/", NumStr(p.noradId), "/", NumStr(p.observer_lat),
      "/", NumStr(p.observer_lng), "/", NumStr(Default(p.observer_alt, 0)),
      "/", NumStr(Default(p.seconds, 60))>>

\* `${ENDPOINTS.VISUAL_PASSES}/${noradId}/${observer_lat}/${observer_lng}/${observer_alt}/${days}/${min_visibility}`
getVisualPasses_endpoint(p) ==
    <<ENDPOINTS.VISUAL_PASSES, "/", NumStr(p.noradId), "/", NumStr(p.observer_lat),
      "/", NumStr(p.observer_lng), "/", NumStr(Default(p.observer_alt, 0)),
      "/", NumStr(Default(p.days, 7)), "/", NumStr(Default(p.min_visibility, 10))>>

\* `${ENDPOINTS.RADIO_PASSES}/${noradId}/${observer_lat}/${observer_lng}/${observer_alt}/${days}/${min_elevation}`
getRadioPasses_endpoint(p) ==
    <<ENDPOINTS.RADIO_PASSES, "/", NumStr(p.noradId), "/", NumStr(p.observer_lat),
      "/", NumStr(p.observer_lng), "/", NumStr(Default(p.observer_alt, 0)),
      "/", NumStr(Default(p.days, 7)), "/", NumStr(Default(p.min_elevation, 0))>>

\* `${ENDPOINTS.ABOVE}/${observer_lat}/${observer_lng}/${observer_alt}/${search_radius}/${category_id}`
getAbove_endpoint(p) ==
    <<ENDPOINTS.ABOVE, "/", NumStr(p.observer_lat), "/", NumStr(p.observer_lng),
      "/", NumStr(Default(p.observer_alt, 0)), "/", NumStr(Default(p.search_radius, 90)),
      "/", NumStr(Default(p.category_id, 0))>>

\* the adapter calls issued in the model
AdapterCalls ==
    {[adapter |-> "getTLE", params |-> [noradId |-> n]] : n \in NoradIds}
    \cup {[adapter |-> "getPositions",
           params |-> [noradId |-> n, observer_lat |-> 0, observer_lng |-> 0,
                       observer_alt |-> Omitted, seconds |-> Given(1)]] : n \in NoradIds}

EndpointOf(ac) ==
    CASE ac.adapter = "getTLE" -> getTLE_endpoint(ac.params.noradId)
      [] ac.adapter = "getPositions" -> getPositions_endpoint(ac.params)
      [] ac.adapter = "getVisualPasses" -> getVisualPasses_endpoint(ac.params)
      [] ac.adapter = "getRadioPasses" -> getRadioPasses_endpoint(ac.params)
      [] ac.adapter = "getAbove" -> getAbove_endpoint(ac.params)

(* ------------------------------- state -------------------------------- *)

VARIABLES
    client,     \* the N2YOApiClient object, or NoClient
    ctor,       \* the last constructor call: its argument and what it threw
    calls,      \* per call: position in makeRequest and what it has observed
    op,         \* the operation (adapter, search, tool call) that runs on call 1
    env         \* process.env.N2YO_API_KEY

vars == <<client, ctor, calls, op, env>>

IdleCall ==
    [pc |-> "idle", adapter |-> "none", path |-> <<>>, endpoint |-> <<>>, retryCount |-> 0,
     requests |-> <<>>, statuses |-> <<>>, response |-> NoResponse,
     delays |-> <<>>, waited |-> <<>>, timer |-> 0,
     data |-> NoResponse.data, error |-> NoError]

\* no operation has been requested
IdleOp ==
    [stage |-> "idle", entry |-> "none", name |-> "none", args |-> <<>>,
     adapter |-> "none", params |-> <<>>, result |-> <<"undefined">>, error |-> NoError]

Init ==
    /\ op = IdleOp
    /\ env = Undefined
    /\ client = NoClient
    /\ ctor = [called |-> FALSE, apiKey |-> Undefined, error |-> NoError]
    /\ calls = [c \in Calls |-> IdleCall]

\* new N2YOApiClient(apiKey)
Construct(apiKey) ==
    /\ client = NoClient
    /\ client' = constructor(apiKey).client
    /\ ctor' = [called |-> TRUE, apiKey |-> apiKey, error |-> constructor(apiKey).error]
    /\ UNCHANGED <<calls, op, env>>

\* an adapter is called: it builds its endpoint and makeRequest(endpoint, {}, 0)
\* runs up to the await of axiosInstance.get(fullEndpoint); calls are numbered
\* in the order they are issued
StartCall(c, ac) ==
    /\ client # NoClient
    /\ calls[c].pc = "idle"
    /\ \A d \in Calls : d < c => calls[d].pc # "idle"
    /\ calls' = [calls EXCEPT ![c] =
                   [@ EXCEPT !.pc = "inflight",
                             !.adapter = ac.adapter,
                             !.path = EndpointOf(ac),
                             !.endpoint = EndpointOf(ac),
                             !.retryCount = 0,
                             !.requests = <<FullEndpoint(EndpointOf(ac), client.apiKey)>>]]
    /\ UNCHANGED <<client, ctor, op, env>>

RetryCountOf_mutant(c) ==
    LET Max(a, b) == IF a >= b THEN a ELSE b
        RECURSIVE MaxUpTo(_)
        MaxUpTo(n) == IF n = 0 THEN 0 ELSE Max(calls[n].retryCount, MaxUpTo(n - 1))
    IN MaxUpTo(MaxCalls)

\* the retryCount parameter of the activation of makeRequest that call c is in
RetryCountOf(c) == calls[c].retryCount

ClientAfterBackoff_mutant(cl) == [cl EXCEPT !.retryDelay = 2 * @]

\* the client after the retry branch ran: delay is a local constant and no
\* field of this is assigned
ClientAfterBackoff(cl) == cl

\* the pending get settles with resp; makeRequest runs to its return, its
\* throw, or the await of the backoff sleep
Respond(c, resp) ==
    /\ calls[c].pc = "inflight"
    /\ LET cur == calls[c]
           seen == [cur EXCEPT !.statuses = Append(@, resp.status), !.response = resp]
           retry == ~IsSuccess(resp) /\ ShouldRetry(resp, RetryCountOf(c), client)
       IN /\ calls' = [calls EXCEPT ![c] =
                IF IsSuccess(resp)
                THEN [seen EXCEPT !.pc = "success", !.data = ResponseData(resp)]
                ELSE IF retry
                     THEN [seen EXCEPT !.pc = "sleeping",
                                       !.delays = Append(@, BackoffDelay(RetryCountOf(c), client)),
                                       !.timer = 0]
                     ELSE [seen EXCEPT !.pc = "failed", !.error = RequestError(resp)]]
          /\ client' = IF retry THEN ClientAfterBackoff(client) ELSE client
    /\ UNCHANGED <<ctor, op, env>>

\* time passes while the call is suspended in setTimeout(resolve, delay)
Tick(c) ==
    /\ calls[c].pc = "sleeping"
    /\ calls[c].timer < calls[c].delays[Len(calls[c].delays)]
    /\ calls' = [calls EXCEPT ![c].timer = @ + client.retryDelay]
    /\ UNCHANGED <<client, ctor, op, env>>

\* the timer fires: return this.makeRequest(endpoint, params, retryCount + 1)
Wake(c) ==
    /\ calls[c].pc = "sleeping"
    /\ calls[c].timer >= calls[c].delays[Len(calls[c].delays)]
    /\ LET cur == calls[c]
           full == cur.requests[Len(cur.requests)]
           ep == RetryEndpoint(cur.endpoint, full)
       IN calls' = [calls EXCEPT ![c] =
                      [cur EXCEPT !.pc = "inflight",
                                  !.endpoint = ep,
                                  !.retryCount = @ + 1,
                                  !.waited = Append(@, cur.timer),
                                  !.timer = 0,
                                  !.response = NoResponse,
                                  !.requests = Append(@, FullEndpoint(ep, client.apiKey))]]
    /\ UNCHANGED <<client, ctor, op, env>>

Next ==
    \/ \E k \in ApiKeys : Construct(k)
    \/ \E c \in Calls, ac \in AdapterCalls : StartCall(c, ac)
    \/ \E c \in Calls, resp \in UpstreamResponses : Respond(c, resp)
    \/ \E c \in Calls : Tick(c)
    \/ \E c \in Calls : Wake(c)

Spec == Init /\ [][Next]_vars

\* every HTTP attempt settles (axios' timeout bounds it) and every timer
\* fires (the event loop runs setTimeout callbacks)
FairSpec ==
    /\ Spec
    /\ \A c \in Calls :
         /\ WF_vars(\E resp \in UpstreamResponses : Respond(c, resp))
         /\ WF_vars(Tick(c))
         /\ WF_vars(Wake(c))

Terminal(c) == calls[c].pc \in {"success", "failed"}

(* ------------------------- claims C1 .. C10 --------------------------- *)

\* every attempt of call c so far was answered with HTTP 429
AllRateLimited(c) ==
    /\ calls[c].statuses # <<>>
    /\ \A i \in DOMAIN calls[c].statuses : calls[c].statuses[i] = 429

\* C1: when every attempt of one makeRequest call is answered 429, exactly 4
\* requests are sent (1 initial + 3 retries) and then the call fails; a 5th
\* request is never sent.
C1_FourAttemptsThenFail ==
    \A c \in Calls :
        AllRateLimited(c) =>
            /\ Len(calls[c].requests) <= 4
            /\ Len(calls[c].statuses) = 4 => calls[c].pc = "failed"
            /\ Terminal(c) => calls[c].pc = "failed" /\ Len(calls[c].requests) = 4

C1_Witness ==
    \E c \in Calls :
        /\ AllRateLimited(c)
        /\ calls[c].pc = "failed"
        /\ Len(calls[c].requests) = 4

\* C2: when the 4th attempt is also answered 429, the call fails with the
\* rate-limit-exceeded error, which is not the generic upstream error raised
\* for other non-success statuses.
C2_RateLimitExceededKind ==
    \A c \in Calls :
        (Len(calls[c].statuses) = 4 /\ calls[c].statuses[4] = 429) =>
            /\ calls[c].pc = "failed"
            /\ calls[c].error.text = ERROR_MESSAGES.RATE_LIMIT_EXCEEDED
            /\ calls[c].error.text # ERROR_MESSAGES.API_ERROR

\* the backoff schedule the specification states
ExpectedDelays == <<1000, 2000, 4000>>

\* C3: the sleep before the k-th retry (k = 1, 2, 3) is 1000 * 2^(k-1) ms, so
\* the delays are 1000, 2000, 4000 in that order, and each retry request is
\* sent only after its delay has elapsed.
C3_BackoffSchedule ==
    \A c \in Calls :
        /\ Len(calls[c].delays) <= 3
        /\ calls[c].delays = SubSeq(ExpectedDelays, 1, Len(calls[c].delays))
        /\ Len(calls[c].waited) <= Len(calls[c].delays)
        /\ \A k \in DOMAIN calls[c].waited : calls[c].waited[k] >= ExpectedDelays[k]
        /\ calls[c].pc # "idle" => Len(calls[c].requests) = 1 + Len(calls[c].waited)

C3_Witness ==
    \E c \in Calls :
        /\ calls[c].delays = ExpectedDelays
        /\ Len(calls[c].waited) = 3
        /\ Len(calls[c].requests) = 4

\* C4: if the first k attempts (0 <= k <= 3) are answered 429 and attempt k+1
\* succeeds, the call returns exactly the payload of attempt k+1 and reports
\* no error.
C4_SuccessReturnsPayload ==
    \A c \in Calls :
        (/\ calls[c].statuses # <<>>
         /\ calls[c].statuses[Len(calls[c].statuses)] = 200) =>
            /\ calls[c].pc = "success"
            /\ calls[c].data = calls[c].response.data
            /\ calls[c].data \in Payloads
            /\ calls[c].error = NoError
            /\ Len(calls[c].statuses) <= 4
            /\ \A i \in 1..(Len(calls[c].statuses) - 1) : calls[c].statuses[i] = 429

C4_Witness ==
    \E c \in Calls :
        /\ calls[c].pc = "success"
        /\ calls[c].statuses = <<429, 429, 429, 200>>

\* C5: when an attempt is answered 401 the call fails with the invalid
\* credential error and no further request is sent for that call; a 401 on the
\* first attempt means exactly 1 request was sent.
C5_AuthFailsWithoutRetry ==
    \A c \in Calls : \A i \in DOMAIN calls[c].statuses :
        calls[c].statuses[i] = 401 =>
            /\ i = Len(calls[c].statuses)
            /\ Len(calls[c].requests) = i
            /\ calls[c].pc = "failed"
            /\ calls[c].error = McpError("InvalidRequest", ERROR_MESSAGES.INVALID_API_KEY, <<>>)

C5_Witness ==
    \E c \in Calls :
        /\ calls[c].statuses = <<401>>
        /\ calls[c].pc = "failed"
        /\ Len(calls[c].requests) = 1

\* C6: when an attempt is answered with a non-success status other than 429
\* and 401, the call fails without any retry with the generic upstream error,
\* and that error carries the HTTP status and the response body of that attempt.
C6_UpstreamErrorCarriesStatusAndBody ==
    \A c \in Calls : \A i \in DOMAIN calls[c].statuses :
        calls[c].statuses[i] \notin {0, 200, 401, 429} =>
            /\ i = Len(calls[c].statuses)
            /\ Len(calls[c].requests) = i
            /\ calls[c].pc = "failed"
            /\ calls[c].error.code = "InternalError"
            /\ calls[c].error.text = ERROR_MESSAGES.API_ERROR
            /\ calls[c].error.detail = <<calls[c].response.status, calls[c].response.data.text>>

\* C7: when an attempt receives no response at all, the call fails with the
\* network error and no retry is made, whatever the retry count at that point.
C7_NetworkFailsWithoutRetry ==
    \A c \in Calls : \A i \in DOMAIN calls[c].statuses :
        calls[c].statuses[i] = 0 =>
            /\ i = Len(calls[c].statuses)
            /\ Len(calls[c].requests) = i
            /\ calls[c].pc = "failed"
            /\ calls[c].error = McpError("InternalError", ERROR_MESSAGES.NETWORK_ERROR, <<>>)

C7_Witness ==
    \E c \in Calls :
        /\ calls[c].statuses = <<429, 429, 0>>
        /\ calls[c].pc = "failed"
        /\ calls[c].retryCount = 2

\* C8: constructing N2YOApiClient with an empty or absent credential fails
\* with the configuration error; then no client object exists and no upstream
\* request is sent.
C8_EmptyCredentialRejected ==
    (ctor.called /\ ctor.apiKey \in {"", Undefined}) =>
        /\ ctor.error = McpError("InvalidParams", ERROR_MESSAGES.MISSING_API_KEY, <<>>)
        /\ client = NoClient
        /\ \A c \in Calls : calls[c].requests = <<>>

C8_Witness ==
    /\ ctor.called
    /\ ctor.apiKey = ""
    /\ ctor.error.text = ERROR_MESSAGES.MISSING_API_KEY

\* the number of positions of a request at which token t stands
Occurrences(url, t) == Cardinality({j \in DOMAIN url : url[j] = t})

\* C9: every request of a call, initial or retry, is the unchanged endpoint
\* path followed by the marker '/&apiKey=' and the configured credential, each
\* exactly once.
C9_CredentialExactlyOnce ==
    \A c \in Calls : \A i \in DOMAIN calls[c].requests :
        LET url == calls[c].requests[i]
        IN /\ Len(url) = Len(calls[c].path) + 2
           /\ SubSeq(url, 1, Len(url) - 2) = calls[c].path
           /\ url[Len(url) - 1] = ApiKeyMarker
           /\ url[Len(url)] = client.apiKey
           /\ Occurrences(url, ApiKeyMarker) = 1
           /\ Occurrences(url, client.apiKey) = 1

C9_Witness ==
    \E c \in Calls :
        /\ Len(calls[c].requests) = 4
        /\ calls[c].requests[4] = calls[c].path \o <<ApiKeyMarker, "KEY-A">>

\* C10: given that every HTTP attempt completes and every backoff sleep
\* elapses, each makeRequest call eventually reaches Success or a Fail
\* variant, and the retry counter never exceeds 3.
C10_CallTerminates ==
    /\ \A c \in Calls : (calls[c].pc = "inflight") ~> Terminal(c)
    /\ [](\A c \in Calls : calls[c].retryCount <= 3)

C10_Witness ==
    \E c \in Calls :
        /\ Terminal(c)
        /\ calls[c].retryCount = 3

(* ------------------- values the adapters work on ---------------------- *)

\* JavaScript values, tagged with their type
Undef == <<"undefined">>

Null == <<"null">>

Str(t) == <<"string", t>>

Num(n) == <<"number", n>>

List(items) == <<"array", items>>

Obj(fields) == <<"object", fields>>

\* the values `||` and `!` treat as false; arrays and objects never are
Falsy(v) == v = Undef \/ v = Null \/ v = Str("") \/ v = Num(0)

Or_mutant(v, d) == IF v = Undef \/ v = Null THEN d ELSE v

\* v || d
Or(v, d) == IF Falsy(v) THEN d ELSE v

\* o?.[f] for an object o with field satname or transactionscount
OptChain(o, f) ==
    IF o = Undef \/ o = Null THEN Undef
    ELSE IF f = "satname" THEN o[2].satname ELSE o[2].transactionscount

\* the JSON envelope of a successful response
Envelope(info, tle, positions, passes, above) ==
    [type |-> "object", text |-> "{envelope}", info |-> info, tle |-> tle,
     positions |-> positions, passes |-> passes, above |-> above]

\* SatelliteAbove records (satname and intDesignator as character sequences)
IssRecord ==
    [satid |-> 25544, satname |-> <<"I", "S", "S">>, intDesignator |-> <<"9", "8", "A">>]

NoaaRecord ==
    [satid |-> 33591, satname |-> <<"N", "o", "a", "a">>, intDesignator |-> <<"0", "9", "a">>]

SesRecord ==
    [satid |-> 26958, satname |-> <<"S", "e", "s">>, intDesignator |-> <<"0", "1", "i", "S">>]

\* what upstream may put in a list field of the envelope
ListFields ==
    {Undef, Null, List(<<>>), List(<<IssRecord>>), List(<<SesRecord, NoaaRecord, IssRecord>>)}

InfoFields ==
    {Undef}
    \cup {Obj([satname |-> n, transactionscount |-> t]) :
            n \in {Undef, Str(""), Str("ISS (ZARYA)")}, t \in {Undef, Num(0), Num(12)}}

TleFields == {Undef, Str(""), Str("1 25544U\r\n2 25544")}

\* the successful responses upstream may give to a call of the adapter
Envelopes(adapter) ==
    CASE adapter = "getTLE" ->
            {Envelope(i, t, Undef, Undef, Undef) : i \in InfoFields, t \in TleFields}
      [] adapter = "getPositions" ->
            {Envelope(Undef, Undef, l, Undef, Undef) : l \in ListFields}
      [] adapter \in {"getVisualPasses", "getRadioPasses"} ->
            {Envelope(Undef, Undef, Undef, l, Undef) : l \in ListFields}
      [] adapter = "getAbove" ->
            {Envelope(Undef, Undef, Undef, Undef, l) : l \in ListFields}

ErrorResponses == {r \in UpstreamResponses : ~IsSuccess(r)}

OpResponses(adapter) ==
    {[status |-> 200, data |-> e] : e \in Envelopes(adapter)} \cup ErrorResponses

(* ----------------------- what the adapters return --------------------- *)

\* getTLE: the SatelliteTLE record built from the envelope
getTLE_return(noradId, response) ==
    Obj([satid |-> Num(noradId),
         satname |-> Or(OptChain(response.info, "satname"),
                        Str("Satellite " \o NumStr(noradId))),
         transactionscount |-> Or(OptChain(response.info, "transactionscount"), Num(0)),
         tle |-> response.tle])

Unwrap_mutant(field) == IF field = Undef \/ field = Null THEN Null ELSE field

\* response.positions || [] , response.passes || [] , response.above || []
Unwrap(field) == Or(field, List(<<>>))

\* the field of the envelope the adapter reads
ListFieldOf(adapter, response) ==
    CASE adapter = "getPositions" -> response.positions
      [] adapter \in {"getVisualPasses", "getRadioPasses"} -> response.passes
      [] adapter = "getAbove" -> response.above

AdapterReturn(adapter, params, response) ==
    IF adapter = "getTLE" THEN getTLE_return(params.noradId, response)
    ELSE Unwrap(ListFieldOf(adapter, response))

(* --------------------- adapters called directly ----------------------- *)

\* the values tried for an optional numeric parameter
OptionalValues == {Omitted, Given(0), Given(5)}

\* the observer used in the direct calls
ObserverLat == 51

ObserverLng == 7

DirectCalls ==
    {[adapter |-> "getTLE", params |-> [noradId |-> n]] : n \in NoradIds}
    \cup {[adapter |-> "getPositions",
           params |-> [noradId |-> n, observer_lat |-> ObserverLat, observer_lng |-> ObserverLng,
                       observer_alt |-> a, seconds |-> x]] :
            n \in NoradIds, a \in OptionalValues, x \in OptionalValues}
    \cup {[adapter |-> "getVisualPasses",
           params |-> [noradId |-> n, observer_lat |-> ObserverLat, observer_lng |-> ObserverLng,
                       observer_alt |-> a, days |-> x, min_visibility |-> y]] :
            n \in NoradIds, a \in OptionalValues, x \in OptionalValues, y \in OptionalValues}
    \cup {[adapter |-> "getRadioPasses",
           params |-> [noradId |-> n, observer_lat |-> ObserverLat, observer_lng |-> ObserverLng,
                       observer_alt |-> a, days |-> x, min_elevation |-> y]] :
            n \in NoradIds, a \in OptionalValues, x \in OptionalValues, y \in OptionalValues}
    \cup {[adapter |-> "getAbove",
           params |-> [observer_lat |-> ObserverLat, observer_lng |-> ObserverLng,
                       observer_alt |-> a, search_radius |-> x, category_id |-> y]] :
            a \in OptionalValues, x \in OptionalValues, y \in OptionalValues}

\* makeRequest(endpoint) entered by an adapter, up to the await of the get
StartedCall(ac, cl) ==
    [IdleCall EXCEPT !.pc = "inflight",
                     !.adapter = ac.adapter,
                     !.path = EndpointOf(ac),
                     !.endpoint = EndpointOf(ac),
                     !.requests = <<FullEndpoint(EndpointOf(ac), cl.apiKey)>>]

\* the client exists before any adapter is called on it
AdapterInit ==
    /\ client = constructor("KEY-A").client
    /\ ctor = [called |-> TRUE, apiKey |-> "KEY-A", error |-> NoError]
    /\ calls = [c \in Calls |-> IdleCall]
    /\ op = IdleOp
    /\ env = "KEY-A"

\* a caller awaits client.<adapter>(params)
AdapterInvoke(ac) ==
    /\ op.stage \in {"idle", "done"}
    /\ calls' = [calls EXCEPT ![1] = StartedCall(ac, client)]
    /\ op' = [IdleOp EXCEPT !.stage = "running", !.entry = "adapter", !.name = ac.adapter,
                            !.args = ac.params, !.adapter = ac.adapter, !.params = ac.params]
    /\ UNCHANGED <<client, ctor, env>>

\* the upstream answers the operation's pending request
OpRespond ==
    /\ op.stage = "running"
    /\ \E resp \in OpResponses(op.adapter) : Respond(1, resp)

\* makeRequest has settled: the adapter returns its value or lets the error through
AdapterDone ==
    /\ op.stage = "running"
    /\ op.entry = "adapter"
    /\ Terminal(1)
    /\ op' = IF calls[1].pc = "success"
             THEN [op EXCEPT !.stage = "done",
                             !.result = AdapterReturn(op.adapter, op.params, calls[1].data)]
             ELSE [op EXCEPT !.stage = "done", !.error = calls[1].error]
    /\ UNCHANGED <<client, ctor, calls, env>>

(* -------------------------- searchSatellites -------------------------- *)

\* String.prototype.toLowerCase on one character
LowerChar(ch) ==
    CASE ch = "A" -> "a" [] ch = "E" -> "e" [] ch = "I" -> "i"
      [] ch = "N" -> "n" [] ch = "O" -> "o" [] ch = "S" -> "s"
      [] OTHER -> ch

toLowerCase(str) == [j \in DOMAIN str |-> LowerChar(str[j])]

\* str.includes(part)
includes(str, part) ==
    \E k \in 0..(Len(str) - Len(part)) : SubSeq(str, k + 1, k + Len(part)) = part

SearchMatch_mutant(sat, searchQuery) ==
    includes(toLowerCase(sat.satname), toLowerCase(searchQuery))

\* the predicate of satellites.filter
SearchMatch(sat, searchQuery) ==
    \/ includes(toLowerCase(sat.satname), toLowerCase(searchQuery))
    \/ includes(toLowerCase(sat.intDesignator), toLowerCase(searchQuery))

\* the value of searchSatellites once getAbove has returned satellites
searchSatellites_return(satellites, searchQuery) ==
    IF searchQuery # <<>>
    THEN LET Keep(sat) == SearchMatch(sat, searchQuery)
         IN List(SelectSeq(satellites[2], Keep))
    ELSE satellites

searchParams_mutant(category_id) ==
    [observer_lat |-> 0, observer_lng |-> 0, observer_alt |-> Omitted,
     search_radius |-> Given(90), category_id |-> Omitted]

\* the AboveParams searchSatellites builds; category_id: number = 0
searchParams(category_id) ==
    [observer_lat |-> 0, observer_lng |-> 0, observer_alt |-> Omitted,
     search_radius |-> Given(90), category_id |-> Given(Default(category_id, 0))]

\* queries and categories the callers search with
SearchQueries ==
    {<<>>, <<"i", "s">>, <<"I", "S", "S">>, <<"9", "8">>, <<"a">>, <<"x">>}

SearchCategories == {Omitted, Given(0), Given(29)}

\* a caller awaits client.searchSatellites(searchQuery, category_id)
SearchInvoke(searchQuery, category_id) ==
    /\ op.stage \in {"idle", "done"}
    /\ LET ac == [adapter |-> "getAbove", params |-> searchParams(category_id)]
       IN /\ calls' = [calls EXCEPT ![1] = StartedCall(ac, client)]
          /\ op' = [IdleOp EXCEPT !.stage = "running", !.entry = "search",
                                  !.name = "searchSatellites",
                                  !.args = [searchQuery |-> searchQuery,
                                            category_id |-> category_id],
                                  !.adapter = ac.adapter, !.params = ac.params]
    /\ UNCHANGED <<client, ctor, env>>

\* getAbove has settled: searchSatellites filters its value or lets the error through
SearchDone ==
    /\ op.stage = "running"
    /\ op.entry = "search"
    /\ Terminal(1)
    /\ op' = IF calls[1].pc = "success"
             THEN [op EXCEPT !.stage = "done",
                             !.result = searchSatellites_return(
                                            AdapterReturn("getAbove", op.params, calls[1].data),
                                            op.args.searchQuery)]
             ELSE [op EXCEPT !.stage = "done", !.error = calls[1].error]
    /\ UNCHANGED <<client, ctor, calls, env>>

AdapterNext ==
    \/ \E ac \in DirectCalls : AdapterInvoke(ac)
    \/ \E q \in SearchQueries, cat \in SearchCategories : SearchInvoke(q, cat)
    \/ SearchDone
    \/ OpRespond
    \/ Tick(1)
    \/ Wake(1)
    \/ AdapterDone

AdapterSpec == AdapterInit /\ [][AdapterNext]_vars

(* ------------------------- the tool handlers -------------------------- *)

\* request.params.arguments was not sent
NoArgs == [missing |-> TRUE]

\* the TypeError of destructuring undefined
DestructureError ==
    [code |-> "TypeError", text |-> "Cannot destructure property of undefined", detail |-> <<>>]

\* error instanceof McpError
IsMcpError(err) == err.code # "TypeError"

ToolNames ==
    {"get_satellite_position", "get_satellite_tle", "predict_visual_passes",
     "predict_radio_passes", "get_satellites_above", "search_satellites_by_name",
     "search_satellites_by_category"}

\* the arguments the callers send with each tool
ToolArgs(name) ==
    CASE name = "get_satellite_position" ->
            {[norad_id |-> n, observer_lat |-> la, observer_lng |-> lo,
              observer_alt |-> a, seconds |-> x] :
                n \in {0, 25544}, la \in {51, 91}, lo \in {7, 181},
                a \in {Omitted, Given(0), Given(-5)},
                x \in {Omitted, Given(0), Given(120), Given(301)}}
      [] name = "get_satellite_tle" -> {[norad_id |-> n] : n \in {0, 25544}}
      [] name = "predict_visual_passes" ->
            {[norad_id |-> n, observer_lat |-> la, observer_lng |-> 7,
              observer_alt |-> a, days |-> x, min_visibility |-> y] :
                n \in {-1, 25544}, la \in {-91, 51}, a \in {Omitted, Given(5)},
                x \in {Omitted, Given(0), Given(5)}, y \in {Omitted, Given(0), Given(601)}}
      [] name = "predict_radio_passes" ->
            {[norad_id |-> 25544, observer_lat |-> 51, observer_lng |-> lo,
              observer_alt |-> a, days |-> x, min_elevation |-> y] :
                lo \in {-181, 7}, a \in {Omitted, Given(5)},
                x \in {Omitted, Given(11), Given(5)}, y \in {Omitted, Given(0), Given(91)}}
      [] name = "get_satellites_above" ->
            {[observer_lat |-> la, observer_lng |-> 7, observer_alt |-> a,
              search_radius |-> x, category_id |-> y] :
                la \in {51, 91}, a \in {Omitted, Given(5)},
                x \in {Omitted, Given(0), Given(91)}, y \in {Omitted, Given(0), Given(31)}}
      [] name = "search_satellites_by_name" -> {[query |-> q] : q \in {<<>>, <<"i", "s">>}}
      [] name = "search_satellites_by_category" ->
            {[category_id |-> y] : y \in {Omitted, Given(0), Given(29), Given(31)}}
      [] OTHER -> {}

\* an optional property with minimum lo and maximum hi in the input schema
InRange(x, lo, hi) == x = Omitted \/ (x[1] >= lo /\ x[1] <= hi)

\* an optional property with minimum lo in the input schema
AtLeast(x, lo) == x = Omitted \/ x[1] >= lo

\* the minimum / maximum declarations of the tool's inputSchema hold of args
WithinSchema(name, args) ==
    LET observer == /\ InRange(Given(args.observer_lat), -90, 90)
                    /\ InRange(Given(args.observer_lng), -180, 180)
                    /\ AtLeast(args.observer_alt, 0)
    IN CASE name = "get_satellite_position" -> observer /\ InRange(args.seconds, 1, 300)
         [] name = "predict_visual_passes" ->
               observer /\ InRange(args.days, 1, 10) /\ InRange(args.min_visibility, 0, 600)
         [] name = "predict_radio_passes" ->
               observer /\ InRange(args.days, 1, 10) /\ InRange(args.min_elevation, 0, 90)
         [] name = "get_satellites_above" ->
               observer /\ InRange(args.search_radius, 0, 90)
                        /\ InRange(args.category_id, 0, 30)
         [] name = "search_satellites_by_category" -> InRange(args.category_id, 0, 30)
         [] OTHER -> TRUE

InvalidParams(text) == McpError("InvalidParams", text, <<>>)

\* x !== undefined && (x < lo || x > hi)
OutOfRange(x, lo, hi) == x # Omitted /\ (x[1] < lo \/ x[1] > hi)

\* the first validation of the handler that fails, or NoError
ValidationError(name, args) ==
    LET noradBad == args.norad_id <= 0
        latBad == args.observer_lat < -90 \/ args.observer_lat > 90
        lngBad == args.observer_lng < -180 \/ args.observer_lng > 180
        norad == InvalidParams("Invalid NORAD ID. Must be a positive integer.")
        lat == InvalidParams("Invalid latitude. Must be between -90 and 90.")
        lng == InvalidParams("Invalid longitude. Must be between -180 and 180.")
    IN CASE name = "get_satellite_position" ->
               IF noradBad THEN norad
               ELSE IF latBad THEN lat
               ELSE IF lngBad THEN lng
               ELSE IF OutOfRange(args.seconds, 1, 300)
                    THEN InvalidParams("Invalid seconds. Must be between 1 and 300.")
               ELSE NoError
         [] name = "get_satellite_tle" -> IF noradBad THEN norad ELSE NoError
         [] name = "predict_visual_passes" ->
               IF noradBad THEN norad
               ELSE IF latBad THEN lat
               ELSE IF lngBad THEN lng
               ELSE IF OutOfRange(args.days, 1, 10)
                    THEN InvalidParams("Invalid days. Must be an integer between 1 and 10.")
               ELSE IF OutOfRange(args.min_visibility, 0, 600)
                    THEN InvalidParams("Invalid min_visibility. Must be between 0 and 600 seconds.")
               ELSE NoError
         [] name = "predict_radio_passes" ->
               IF noradBad THEN norad
               ELSE IF latBad THEN lat
               ELSE IF lngBad THEN lng
               ELSE IF OutOfRange(args.days, 1, 10)
                    THEN InvalidParams("Invalid days. Must be an integer between 1 and 10.")
               ELSE IF OutOfRange(args.min_elevation, 0, 90)
                    THEN InvalidParams("Invalid min_elevation. Must be between 0 and 90 degrees.")
               ELSE NoError
         [] name = "get_satellites_above" ->
               IF latBad THEN lat
               ELSE IF lngBad THEN lng
               ELSE IF OutOfRange(args.search_radius, 0, 90)
                    THEN InvalidParams("Invalid search_radius. Must be between 0 and 90 degrees.")
               ELSE IF OutOfRange(args.category_id, 0, 30)
                    THEN InvalidParams("Invalid category_id. Must be an integer between 0 and 30.")
               ELSE NoError
         [] name = "search_satellites_by_name" -> NoError
         [] name = "search_satellites_by_category" ->
               IF args.category_id = Omitted \/ OutOfRange(args.category_id, 0, 30)
               THEN InvalidParams("Invalid category_id. Must be an integer between 0 and 30.")
               ELSE NoError

\* the adapter call the handler awaits once its arguments are valid
ToolAdapterCall(name, args) ==
    CASE name = "get_satellite_position" ->
            [adapter |-> "getPositions",
             params |-> [noradId |-> args.norad_id, observer_lat |-> args.observer_lat,
                         observer_lng |-> args.observer_lng, observer_alt |-> args.observer_alt,
                         seconds |-> args.seconds]]
      [] name = "get_satellite_tle" ->
            [adapter |-> "getTLE", params |-> [noradId |-> args.norad_id]]
      [] name = "predict_visual_passes" ->
            [adapter |-> "getVisualPasses",
             params |-> [noradId |-> args.norad_id, observer_lat |-> args.observer_lat,
                         observer_lng |-> args.observer_lng, observer_alt |-> args.observer_alt,
                         days |-> args.days, min_visibility |-> args.min_visibility]]
      [] name = "predict_radio_passes" ->
            [adapter |-> "getRadioPasses",
             params |-> [noradId |-> args.norad_id, observer_lat |-> args.observer_lat,
                         observer_lng |-> args.observer_lng, observer_alt |-> args.observer_alt,
                         days |-> args.days, min_elevation |-> args.min_elevation]]
      [] name = "get_satellites_above" ->
            [adapter |-> "getAbove",
             params |-> [observer_lat |-> args.observer_lat, observer_lng |-> args.observer_lng,
                         observer_alt |-> args.observer_alt,
                         search_radius |-> args.search_radius,
                         category_id |-> args.category_id]]
      [] name = "search_satellites_by_name" ->
            [adapter |-> "getAbove", params |-> searchParams(Omitted)]
      [] name = "search_satellites_by_category" ->
            [adapter |-> "getAbove", params |-> searchParams(args.category_id)]

\* what the awaited client method resolves to
ToolData(name, args, ac, response) ==
    CASE name = "search_satellites_by_name" ->
            searchSatellites_return(AdapterReturn(ac.adapter, ac.params, response), args.query)
      [] name = "search_satellites_by_category" ->
            searchSatellites_return(AdapterReturn(ac.adapter, ac.params, response), <<>>)
      [] OTHER -> AdapterReturn(ac.adapter, ac.params, response)

\* !list || list.length === 0
EmptyList(list) == Falsy(list) \/ list = List(<<>>)

NoDataError_mutant(name, data) == NoError

\* the error the handler throws on the data it got, or NoError
NoDataError(name, data) ==
    CASE name = "get_satellite_position" /\ EmptyList(data) ->
            McpError("InvalidRequest", "No position data found for satellite with NORAD ID",
                     <<>>)
      [] name = "get_satellite_tle" /\ (Falsy(data) \/ Falsy(data[2].tle)) ->
            McpError("InvalidRequest", "No TLE data found for satellite with NORAD ID", <<>>)
      [] OTHER -> NoError

\* the message prefix of the handler's InternalError
ToolErrorPrefix(name) ==
    CASE name = "get_satellite_position" -> "Error retrieving satellite position"
      [] name = "get_satellite_tle" -> "Error retrieving satellite TLE data"
      [] name = "predict_visual_passes" -> "Error predicting satellite passes"
      [] name = "predict_radio_passes" -> "Error predicting satellite radio passes"
      [] name = "get_satellites_above" -> "Error retrieving satellites above"
      [] name = "search_satellites_by_name" -> "Error searching for satellites by name"
      [] name = "search_satellites_by_category" ->
            "Error searching for satellites by category"

ToolCatch_mutant(name, err) == McpError("InternalError", ToolErrorPrefix(name), <<err.text>>)

\* catch (error): an McpError is rethrown, anything else is wrapped
ToolCatch(name, err) ==
    IF IsMcpError(err) THEN err
    ELSE McpError("InternalError", ToolErrorPrefix(name), <<err.text>>)

Coalesce_mutant(x, d) == IF x = Omitted THEN d ELSE x[1]

\* x || d for an optional number x
Coalesce(x, d) == IF x = Omitted \/ x[1] = 0 THEN d ELSE x[1]

\* the query parameters the handler repeats in the response it builds from data
ToolEcho(name, args, data) ==
    CASE name = "get_satellite_position" -> [altitude |-> Coalesce(args.observer_alt, 0)]
      [] name = "predict_visual_passes" ->
            [altitude |-> Coalesce(args.observer_alt, 0),
             prediction_days |-> Coalesce(args.days, 7)]
      [] name = "predict_radio_passes" /\ EmptyList(data) ->
            [altitude |-> Coalesce(args.observer_alt, 0),
             prediction_days |-> Coalesce(args.days, 7)]
      [] name = "predict_radio_passes" /\ ~EmptyList(data) ->
            [altitude |-> Coalesce(args.observer_alt, 0),
             prediction_days |-> Coalesce(args.days, 7),
             min_elevation |-> Coalesce(args.min_elevation, 0)]
      [] name = "get_satellites_above" ->
            [altitude |-> Coalesce(args.observer_alt, 0),
             search_radius |-> Coalesce(args.search_radius, 90)]
      [] OTHER -> <<>>

\* the response of a handler that returned: the list it formats from data
\* (empty when there is none) and the parameters it repeats
ToolContent(name, args, data) ==
    Obj([content |-> IF EmptyList(data) THEN List(<<>>) ELSE data,
         echo |-> ToolEcho(name, args, data)])

(* ------------------------------ the server ----------------------------- *)

MissingKeyError ==
    McpError("InvalidRequest", "N2YO_API_KEY environment variable is required", <<>>)

getApiClient_mutant(cl, key) ==
    IF cl # NoClient THEN [error |-> NoError, client |-> cl, constructed |-> FALSE]
    ELSE [error |-> constructor(key).error, client |-> constructor(key).client,
          constructed |-> TRUE]

getApiClient_mutantNoCache(cl, key) ==
    IF IsFalsyKey(key)
    THEN [error |-> MissingKeyError, client |-> NoClient, constructed |-> FALSE]
    ELSE [error |-> constructor(key).error, client |-> constructor(key).client,
          constructed |-> TRUE]

\* SatelliteTrackingServer.getApiClient with this.apiClient = cl and
\* process.env.N2YO_API_KEY = key
getApiClient(cl, key) ==
    IF cl # NoClient THEN [error |-> NoError, client |-> cl, constructed |-> FALSE]
    ELSE IF IsFalsyKey(key)
         THEN [error |-> MissingKeyError, client |-> NoClient, constructed |-> FALSE]
         ELSE [error |-> constructor(key).error, client |-> constructor(key).client,
               constructed |-> TRUE]

\* the constructor call record after getApiClient returned got; the server's
\* record also counts the constructor calls
CtorAfter(got, key) ==
    IF got.constructed
    THEN [called |-> TRUE, apiKey |-> key, error |-> got.error, count |-> ctor.count + 1]
    ELSE ctor

\* the server is constructed; it constructs no client
ServerInit ==
    /\ env \in ApiKeys
    /\ client = NoClient
    /\ ctor = [called |-> FALSE, apiKey |-> Undefined, error |-> NoError, count |-> 0]
    /\ calls = [c \in Calls |-> IdleCall]
    /\ op = IdleOp

\* the operation ends at once with err
Failed(entry, name, args, err) ==
    [IdleOp EXCEPT !.stage = "done", !.entry = entry, !.name = name, !.args = args,
                   !.error = err]

UnknownToolError_mutant(name) == McpError("InvalidRequest", "Unknown tool", <<name>>)

\* the default case of the switch: `Unknown tool: ${request.params.name}`
UnknownToolError(name) == McpError("MethodNotFound", "Unknown tool", <<name>>)

\* the CallTool handler, up to the handler's first await or its throw
CallTool(name, args) ==
    /\ op.stage \in {"idle", "done"}
    /\ LET got == getApiClient(client, env)
           ac == ToolAdapterCall(name, args)
       IN /\ client' = got.client
          /\ ctor' = CtorAfter(got, env)
          /\ IF got.error # NoError
             THEN /\ op' = Failed("tool", name, args, got.error)
                  /\ calls' = [calls EXCEPT ![1] = IdleCall]
             ELSE IF name \notin ToolNames
             THEN /\ op' = Failed("tool", name, args, UnknownToolError(name))
                  /\ calls' = [calls EXCEPT ![1] = IdleCall]
             ELSE IF args = NoArgs
             THEN /\ op' = Failed("tool", name, args, ToolCatch(name, DestructureError))
                  /\ calls' = [calls EXCEPT ![1] = IdleCall]
             ELSE IF ValidationError(name, args) # NoError
             THEN /\ op' = Failed("tool", name, args,
                                  ToolCatch(name, ValidationError(name, args)))
                  /\ calls' = [calls EXCEPT ![1] = IdleCall]
             ELSE /\ op' = [IdleOp EXCEPT !.stage = "running", !.entry = "tool",
                                          !.name = name, !.args = args,
                                          !.adapter = ac.adapter, !.params = ac.params]
                  /\ calls' = [calls EXCEPT ![1] = StartedCall(ac, got.client)]
    /\ UNCHANGED env

\* the awaited client method has settled: the handler returns its response or
\* its catch block throws
ToolDone ==
    /\ op.stage = "running"
    /\ op.entry = "tool"
    /\ Terminal(1)
    /\ LET ac == [adapter |-> op.adapter, params |-> op.params]
           data == ToolData(op.name, op.args, ac, calls[1].data)
       IN op' = IF calls[1].pc = "failed"
                THEN [op EXCEPT !.stage = "done", !.error = ToolCatch(op.name, calls[1].error)]
                ELSE IF NoDataError(op.name, data) # NoError
                THEN [op EXCEPT !.stage = "done",
                                !.error = ToolCatch(op.name, NoDataError(op.name, data))]
                ELSE [op EXCEPT !.stage = "done",
                                !.result = ToolContent(op.name, op.args, data)]
    /\ UNCHANGED <<client, ctor, calls, env>>

\* the prefixes the ReadResource handler dispatches on
ResourcePrefixes == {"satellite://", "satellites://category/", "satellites://above/"}

\* satellite:// URIs: the characters after the prefix
SatelliteUris ==
    {[prefix |-> "satellite://", rest |-> r] :
        r \in {<<"2", "5", "5", "4", "4">>, <<"0">>, <<"2", "x">>, <<>>}}

\* resource URIs, each split at the end of its scheme prefix
ResourceUris ==
    SatelliteUris
    \cup {[prefix |-> "satellites://category/", rest |-> <<"1", "8">>],
          [prefix |-> "satellites://above/", rest |-> <<"5", "1", "/", "7">>],
          [prefix |-> "other://", rest |-> <<"x">>]}

\* uri.startsWith(prefix)
startsWith(uri, prefix) == uri.prefix = prefix

\* the ReadResource handler where it throws before calling a resource
\* function: getApiClient throws, or the URI has no supported prefix
ReadResource(uri) ==
    /\ op.stage \in {"idle", "done"}
    /\ LET got == getApiClient(client, env)
           supported == \E prefix \in ResourcePrefixes : startsWith(uri, prefix)
       IN /\ got.error # NoError \/ ~supported
          /\ client' = got.client
          /\ ctor' = CtorAfter(got, env)
          /\ op' = IF got.error # NoError
                   THEN Failed("resource", uri, <<>>, got.error)
                   ELSE Failed("resource", uri, <<>>,
                               McpError("InvalidRequest", "Unsupported resource URI", <<uri>>))
          /\ calls' = [calls EXCEPT ![1] = IdleCall]
    /\ UNCHANGED env

ServerNext ==
    \/ \E name \in ToolNames \cup {"no_such_tool"} :
           \E args \in ToolArgs(name) \cup {NoArgs} : CallTool(name, args)
    \/ \E uri \in ResourceUris : ReadResource(uri)
    \/ OpRespond
    \/ Tick(1)
    \/ Wake(1)
    \/ ToolDone

ServerSpec == ServerInit /\ [][ServerNext]_vars

(* ----------------------- the satellite resource ---------------------- *)

\* the characters \d matches, in the order of their values
Digits == <<"0", "1", "2", "3", "4", "5", "6", "7", "8", "9">>

IsDigit(ch) == \E i \in DOMAIN Digits : Digits[i] = ch

DigitValue(ch) == (CHOOSE i \in DOMAIN Digits : Digits[i] = ch) - 1

\* uri.match(/^satellite:\/\/(\d+)$/) succeeded
MatchesSatelliteUri(uri) ==
    /\ uri.prefix = "satellite://"
    /\ uri.rest # <<>>
    /\ \A i \in DOMAIN uri.rest : IsDigit(uri.rest[i])

\* parseInt(match[1], 10)
RECURSIVE parseInt(_)
parseInt(chars) ==
    IF chars = <<>> THEN 0
    ELSE 10 * parseInt(SubSeq(chars, 1, Len(chars) - 1)) + DigitValue(chars[Len(chars)])

\* the error getSatelliteResource throws before it queries, or NoError
SatelliteUriError(uri) ==
    IF ~MatchesSatelliteUri(uri)
    THEN McpError("InvalidRequest", "Invalid satellite resource URI", <<uri>>)
    ELSE IF parseInt(uri.rest) <= 0
         THEN InvalidParams("Invalid NORAD ID. Must be a positive integer.")
         ELSE NoError

\* the two adapter calls handed to Promise.all
SatelliteQueries(noradId) ==
    <<[adapter |-> "getTLE", params |-> [noradId |-> noradId]],
      [adapter |-> "getPositions",
       params |-> [noradId |-> noradId, observer_lat |-> 0, observer_lng |-> 0,
                   observer_alt |-> Omitted, seconds |-> Given(1)]]>>

\* promise.catch(error => { console.error(...); return null; })
CaughtAsNull(call, value) == IF call.pc = "failed" THEN Null ELSE value

SatelliteNoData_mutant(tleData, positions) == Falsy(tleData) \/ Falsy(positions)

\* !tleData && !positions
SatelliteNoData(tleData, positions) == Falsy(tleData) /\ Falsy(positions)

SatelliteNoDataError_mutant(noradId, tleError, positionsError) == tleError

\* the McpError thrown when both queries gave null
SatelliteNoDataError(noradId, tleError, positionsError) ==
    McpError("InvalidRequest", "No data found for satellite with NORAD ID", <<noradId>>)

\* text.split('\r\n') for the TLE texts upstream sends
SplitLines(text) ==
    IF text = Str("1 25544U\r\n2 25544") THEN <<"1 25544U", "2 25544">> ELSE <<text[2]>>

\* tleLines[i] || ''
LineOr(lines, i) == IF i <= Len(lines) THEN lines[i] ELSE ""

\* the satelliteData object built from the two results
SatelliteData(noradId, tleData, positions) ==
    LET tleLines == IF ~Falsy(tleData) /\ ~Falsy(tleData[2].tle)
                    THEN SplitLines(tleData[2].tle) ELSE <<>>
        first == IF ~Falsy(positions) /\ positions[2] # <<>>
                 THEN Obj(positions[2][1]) ELSE Undef
    IN Obj([norad_id |-> Num(noradId),
            name |-> IF ~Falsy(tleData) /\ ~Falsy(tleData[2].satname) THEN tleData[2].satname
                     ELSE IF first # Undef /\ first[2].satname # <<>>
                          THEN Str(first[2].satname)
                          ELSE Str("Satellite " \o NumStr(noradId)),
            tle |-> IF ~Falsy(tleData) /\ tleLines # <<>>
                    THEN Obj([line1 |-> LineOr(tleLines, 1), line2 |-> LineOr(tleLines, 2),
                              line3 |-> LineOr(tleLines, 3)])
                    ELSE Undef,
            position |-> first])

\* the server is running; a client may or may not have been constructed yet
ResourceInit == ServerInit

\* the ReadResource handler for a satellite:// URI, up to the await of
\* Promise.all or the first throw
ReadSatellite(uri) ==
    /\ op.stage \in {"idle", "done"}
    /\ startsWith(uri, "satellite://")
    /\ LET got == getApiClient(client, env)
           err == IF got.error # NoError THEN got.error ELSE SatelliteUriError(uri)
           queries == SatelliteQueries(parseInt(uri.rest))
       IN /\ client' = got.client
          /\ ctor' = CtorAfter(got, env)
          /\ IF err # NoError
             THEN /\ op' = Failed("resource", uri, <<>>, err)
                  /\ calls' = [c \in Calls |-> IdleCall]
             ELSE /\ op' = [IdleOp EXCEPT !.stage = "running", !.entry = "resource",
                                          !.name = uri, !.adapter = "Promise.all",
                                          !.params = [noradId |-> parseInt(uri.rest)]]
                  /\ calls' = [c \in Calls |->
                                 IF c \in DOMAIN queries THEN StartedCall(queries[c], got.client)
                                 ELSE IdleCall]
    /\ UNCHANGED env

\* the upstream answers one of the two pending requests
SatelliteRespond(c) ==
    /\ op.stage = "running"
    /\ op.entry = "resource"
    /\ \E resp \in OpResponses(calls[c].adapter) : Respond(c, resp)

\* both promises have settled: Promise.all resolves and the handler returns
\* the JSON text or throws
SatelliteDone ==
    /\ op.stage = "running"
    /\ op.entry = "resource"
    /\ Terminal(1)
    /\ Terminal(2)
    /\ LET id == op.params.noradId
           queries == SatelliteQueries(id)
           tleData == CaughtAsNull(calls[1], AdapterReturn("getTLE", queries[1].params,
                                                           calls[1].data))
           positions == CaughtAsNull(calls[2], AdapterReturn("getPositions", queries[2].params,
                                                             calls[2].data))
       IN op' = IF SatelliteNoData(tleData, positions)
                THEN [op EXCEPT !.stage = "done",
                                !.error = SatelliteNoDataError(id, calls[1].error,
                                                               calls[2].error)]
                ELSE [op EXCEPT !.stage = "done",
                                !.result = SatelliteData(id, tleData, positions)]
    /\ UNCHANGED <<client, ctor, calls, env>>

ResourceNext ==
    \/ \E uri \in SatelliteUris : ReadSatellite(uri)
    \/ \E c \in {1, 2} : SatelliteRespond(c)
    \/ \E c \in {1, 2} : Tick(c)
    \/ \E c \in {1, 2} : Wake(c)
    \/ SatelliteDone

ResourceSpec == ResourceInit /\ [][ResourceNext]_vars

(* ------------------------- claims C11 .. C20 -------------------------- *)

\* the operation is a direct adapter call whose request has been sent
AdapterCalled(a) == op.entry = "adapter" /\ op.adapter = a /\ op.stage # "idle"

\* what the claim expects in the path for an optional parameter
Embedded(x, d) == IF x = Omitted THEN NumStr(d) ELSE NumStr(x[1])

\* C11: in getPositions, getVisualPasses, getRadioPasses and getAbove every
\* optional numeric parameter embedded in the request path is the caller's
\* value whenever one was supplied (an explicit 0 included) and the default
\* (alt=0, seconds=60, days=7, minVisibility=10, minElevation=0, radius=90,
\* categoryId=0) only when it was omitted.
C11_DefaultsOnlyWhenOmitted ==
    \A i \in DOMAIN calls[1].requests :
        LET url == calls[1].requests[i]
            p == op.params
        IN /\ AdapterCalled("getPositions") =>
                /\ url[9] = Embedded(p.observer_alt, 0)
                /\ url[11] = Embedded(p.seconds, 60)
           /\ AdapterCalled("getVisualPasses") =>
                /\ url[9] = Embedded(p.observer_alt, 0)
                /\ url[11] = Embedded(p.days, 7)
                /\ url[13] = Embedded(p.min_visibility, 10)
           /\ AdapterCalled("getRadioPasses") =>
                /\ url[9] = Embedded(p.observer_alt, 0)
                /\ url[11] = Embedded(p.days, 7)
                /\ url[13] = Embedded(p.min_elevation, 0)
           /\ AdapterCalled("getAbove") =>
                /\ url[7] = Embedded(p.observer_alt, 0)
                /\ url[9] = Embedded(p.search_radius, 90)
                /\ url[11] = Embedded(p.category_id, 0)

C11_Witness ==
    /\ AdapterCalled("getVisualPasses")
    /\ op.params.days = Given(0)
    /\ op.params.min_visibility = Omitted
    /\ op.params.observer_alt = Given(5)
    /\ Len(calls[1].requests) = 2
    /\ calls[1].requests[2][11] = "0"
    /\ calls[1].requests[2][13] = "10"

\* the characters of an endpoint constant, cut at its slashes
Lex(tok) ==
    CASE tok = ENDPOINTS.TLE -> <<"/", "tle", "/">>
      [] tok = ENDPOINTS.POSITIONS -> <<"/", "positions", "/">>
      [] tok = ENDPOINTS.VISUAL_PASSES -> <<"/", "visualpasses", "/">>
      [] tok = ENDPOINTS.RADIO_PASSES -> <<"/", "radiopasses", "/">>
      [] tok = ENDPOINTS.ABOVE -> <<"/", "above", "/">>
      [] OTHER -> <<tok>>

\* a path as the sequence of its slashes and segments
RECURSIVE Flatten(_)
Flatten(path) == IF path = <<>> THEN <<>> ELSE Lex(Head(path)) \o Flatten(Tail(path))

\* "/" in front of every value of vals
RECURSIVE Slashed(_)
Slashed(vals) == IF vals = <<>> THEN <<>> ELSE <<"/", Head(vals)>> \o Slashed(Tail(vals))

\* the path the template of the operation's adapter describes
TemplatePath ==
    LET p == op.params
    IN CASE op.adapter = "getTLE" -> Slashed(<<"tle", NumStr(p.noradId)>>)
         [] op.adapter = "getPositions" ->
                Slashed(<<"positions", NumStr(p.noradId), NumStr(p.observer_lat),
                          NumStr(p.observer_lng), Embedded(p.observer_alt, 0),
                          Embedded(p.seconds, 60)>>)
         [] op.adapter = "getVisualPasses" ->
                Slashed(<<"visualpasses", NumStr(p.noradId), NumStr(p.observer_lat),
                          NumStr(p.observer_lng), Embedded(p.observer_alt, 0),
                          Embedded(p.days, 7), Embedded(p.min_visibility, 10)>>)
         [] op.adapter = "getRadioPasses" ->
                Slashed(<<"radiopasses", NumStr(p.noradId), NumStr(p.observer_lat),
                          NumStr(p.observer_lng), Embedded(p.observer_alt, 0),
                          Embedded(p.days, 7), Embedded(p.min_elevation, 0)>>)
         [] op.adapter = "getAbove" ->
                Slashed(<<"above", NumStr(p.observer_lat), NumStr(p.observer_lng),
                          Embedded(p.observer_alt, 0), Embedded(p.search_radius, 90),
                          Embedded(p.category_id, 0)>>)

\* C12: each adapter requests exactly the path of its template, the parameters
\* in the template's order with a single '/' between consecutive segments
\* (/tle/{id}, /positions/{id}/{lat}/{lng}/{alt}/{seconds}, ...).
C12_PathIsTemplate ==
    (op.entry = "adapter" /\ op.stage # "idle") => Flatten(calls[1].path) = TemplatePath

\* a direct call of a list adapter whose request succeeded has returned
ListAdapterReturned ==
    /\ op.entry = "adapter"
    /\ op.adapter # "getTLE"
    /\ op.stage = "done"
    /\ calls[1].pc = "success"

\* C13: getPositions, getVisualPasses, getRadioPasses and getAbove return the
\* envelope's list field unchanged when it is present, and an empty sequence,
\* never an error, when the request succeeded and the field is absent, null
\* or empty.
C13_ListUnwrapped ==
    ListAdapterReturned =>
        LET field == ListFieldOf(op.adapter, calls[1].data)
        IN /\ op.error = NoError
           /\ field[1] = "array" => op.result = field
           /\ (field = Undef \/ field = Null \/ field = List(<<>>)) => op.result = List(<<>>)

C13_Witness ==
    /\ ListAdapterReturned
    /\ op.adapter = "getAbove"
    /\ calls[1].data.above = Undef
    /\ op.result = List(<<>>)

\* a direct getTLE call whose request succeeded has returned
TleReturned ==
    /\ op.entry = "adapter"
    /\ op.adapter = "getTLE"
    /\ op.stage = "done"
    /\ calls[1].pc = "success"

\* upstream supplied field f of info
Supplied(info, f) == OptChain(info, f) # Undef /\ OptChain(info, f) # Null

\* C14: getTLE returns the envelope's name and transaction count when upstream
\* supplies them, substitutes "Satellite {id}" and 0 exactly when upstream
\* omits them, and returns the catalog id the caller passed.
C14_TleDefaultsExactlyWhenOmitted ==
    TleReturned =>
        LET info == calls[1].data.info
            tle == op.result[2]
        IN /\ tle.satid = Num(op.params.noradId)
           /\ tle.satname = IF Supplied(info, "satname")
                            THEN OptChain(info, "satname")
                            ELSE Str("Satellite " \o NumStr(op.params.noradId))
           /\ tle.transactionscount = IF Supplied(info, "transactionscount")
                                      THEN OptChain(info, "transactionscount")
                                      ELSE Num(0)

\* a searchSatellites call whose getAbove request succeeded has returned
SearchReturned ==
    /\ op.entry = "search"
    /\ op.stage = "done"
    /\ calls[1].pc = "success"

\* needle occurs in hay at offset k, letter case ignored
OccursAt(hay, needle, k) ==
    /\ k + Len(needle) <= Len(hay)
    /\ \A j \in DOMAIN needle : LowerChar(hay[k + j]) = LowerChar(needle[j])

ContainsIgnoringCase(hay, needle) == \E k \in 0..Len(hay) : OccursAt(hay, needle, k)

\* the records of list the claim selects for query q, in list order
RECURSIVE Selected(_, _)
Selected(list, q) ==
    IF list = <<>> THEN <<>>
    ELSE LET sat == Head(list)
         IN (IF \/ ContainsIgnoringCase(sat.satname, q)
                \/ ContainsIgnoringCase(sat.intDesignator, q)
             THEN <<sat>> ELSE <<>>) \o Selected(Tail(list), q)

\* C15: with a non-empty query searchSatellites returns exactly the records of
\* the getAbove result whose name or international designator contains the
\* query as a case-insensitive substring, in getAbove's order; with an empty
\* query it returns the getAbove result unfiltered.
C15_SearchFilter ==
    SearchReturned =>
        LET above == Unwrap(calls[1].data.above)
            q == op.args.searchQuery
        IN /\ op.error = NoError
           /\ q = <<>> => op.result = above
           /\ q # <<>> => op.result = List(Selected(above[2], q))

C15_Witness ==
    /\ SearchReturned
    /\ op.args.searchQuery = <<"i", "s">>
    /\ calls[1].data.above = List(<<SesRecord, NoaaRecord, IssRecord>>)
    /\ op.result = List(<<SesRecord, IssRecord>>)

\* C16: every searchSatellites call issues one getAbove query with lat=0,
\* lng=0, alt=0, radius=90 and the caller's category: category 0 when it was
\* omitted, the given category (0 included) otherwise.
C16_SearchQueriesAboveEquator ==
    (op.entry = "search" /\ op.stage # "idle") =>
        /\ calls[1].adapter = "getAbove"
        /\ Len(calls[1].requests) >= 1
        /\ \A i \in DOMAIN calls[1].requests :
              LET url == calls[1].requests[i]
              IN /\ url[1] = ENDPOINTS.ABOVE
                 /\ url[3] = "0"
                 /\ url[5] = "0"
                 /\ url[7] = "0"
                 /\ url[9] = "90"
                 /\ url[11] = Embedded(op.args.category_id, 0)
                 /\ Len(url) = 13

C16_Witness ==
    /\ op.entry = "search"
    /\ op.stage = "done"
    /\ op.args.category_id = Given(29)
    /\ calls[1].requests[1][11] = "29"

\* call c failed because its last permitted attempt was answered 429
Exhausted(c) ==
    /\ calls[c].pc = "failed"
    /\ calls[c].statuses[Len(calls[c].statuses)] = 429

\* C17: for any interleaving of concurrent calls on the same client each call
\* has its own retry counter: 429 responses or a failure of one call do not
\* reduce the retries available to another call and do not change another
\* call's outcome, so each call can still make up to 4 attempts.
C17_RetryBudgetPerCall ==
    /\ [](\A c \in Calls :
            /\ calls[c].retryCount = Len(calls[c].waited)
            /\ calls[c].pc # "idle" => Len(calls[c].requests) = 1 + calls[c].retryCount
            /\ calls[c].retryCount <= 3
            /\ Exhausted(c) => Len(calls[c].requests) = 4
            /\ calls[c].pc = "failed" => calls[c].error = RequestError(calls[c].response)
            /\ calls[c].pc = "success" => calls[c].data = calls[c].response.data)
    /\ [][\A c \in Calls : calls'[c] # calls[c] =>
              \A d \in Calls \ {c} : calls'[d] = calls[d]]_vars

C17_Witness ==
    \E c \in Calls : \E d \in Calls \ {c} :
        /\ Exhausted(c)
        /\ calls[d].pc = "success"
        /\ Len(calls[d].requests) = 4

\* C18: no adapter call, successful or failed, and no retry changes the
\* client: credential, base URL, initial retry delay (1000 ms) and maximum
\* retries (3) stay what they were after construction.
C18_ClientUnchanged ==
    /\ [](client # NoClient =>
            /\ client.apiKey = ctor.apiKey
            /\ client.baseUrl = "https://api.n2yo.com/rest/v1/satellite"
            /\ client.retryDelay = 1000
            /\ client.maxRetries = 3)
    /\ [][client # NoClient => client' = client]_vars

C18_Witness ==
    /\ client # NoClient
    /\ \E c \in Calls : Exhausted(c)
    /\ \E c \in Calls : calls[c].pc = "success" /\ calls[c].retryCount > 0

\* the errors raised for a missing credential: the server's and the client
\* constructor's
CredentialErrors == {MissingKeyError, InvalidParams(ERROR_MESSAGES.MISSING_API_KEY)}

C20_ErrorsPropagateUnchanged ==
    op.entry = "tool" /\ op.stage = "done" =>
        /\ calls[1].pc = "failed" =>
              /\ op.error = RequestError(calls[1].response)
              /\ op.error = calls[1].error
              /\ op.result = IdleOp.result
        /\ client # NoClient /\ op.name \in ToolNames /\ op.args = NoArgs =>
              /\ op.error.code = "InternalError"
              /\ op.error.text = ToolErrorPrefix(op.name)
              /\ op.error.detail = <<DestructureError.text>>

C20_Witness ==
    /\ op.entry = "tool"
    /\ op.stage = "done"
    /\ op.name = "search_satellites_by_name"
    /\ calls[1].pc = "failed"
    /\ calls[1].response.status = 401
    /\ op.error = McpError("InvalidRequest", ERROR_MESSAGES.INVALID_API_KEY, <<>>)

(* ------------------------- claims C21 .. C28 -------------------------- *)

\* the 429 answers of call c that were followed by a retry
Retried429(c) ==
    {i \in DOMAIN calls[c].statuses : calls[c].statuses[i] = 429 /\ i <= 3}

\* C21: within one makeRequest call a further request is sent only directly
\* after a 429 answer and only while fewer than 3 retries were made; after a
\* success, a 401, another HTTP error or a network failure no request
\* follows, so the requests number 1 plus the 429 answers that were retried.
C21_RequestOnlyAfter429 ==
    /\ [][\A c \in Calls :
            calls[c].requests # <<>> /\ calls'[c].requests # calls[c].requests =>
                /\ Len(calls'[c].requests) = Len(calls[c].requests) + 1
                /\ Len(calls[c].statuses) = Len(calls[c].requests)
                /\ calls[c].statuses[Len(calls[c].statuses)] = 429
                /\ calls[c].retryCount < 3]_vars
    /\ [][\A c \in Calls : Terminal(c) => calls'[c] = calls[c]]_vars
    /\ [](\A c \in Calls :
            /\ \A i \in DOMAIN calls[c].statuses :
                   i < Len(calls[c].statuses) => calls[c].statuses[i] = 429
            /\ Terminal(c) =>
                   /\ Len(calls[c].statuses) = Len(calls[c].requests)
                   /\ Len(calls[c].requests) = 1 + Cardinality(Retried429(c)))

C21_Witness ==
    \E c \in Calls :
        /\ calls[c].pc = "failed"
        /\ calls[c].statuses = <<429, 429, 0>>
        /\ Len(calls[c].requests) = 3

\* the tool takes a NORAD id
TakesNoradId(name) ==
    name \in {"get_satellite_position", "get_satellite_tle", "predict_visual_passes",
              "predict_radio_passes"}

\* the arguments are what the claim calls validated
ValidatedArgs(name, args) ==
    /\ TakesNoradId(name) => args.norad_id > 0
    /\ WithinSchema(name, args)

\* C22: every upstream request sent for a tool call carries validated
\* parameters (positive NORAD id, latitude in [-90, 90], longitude in
\* [-180, 180], every optional parameter inside the range its input schema
\* declares); a call with a value outside these ranges fails with
\* InvalidParams and sends no upstream request.
C22_RequestsCarryValidatedParams ==
    op.entry = "tool" /\ op.name \in ToolNames /\ op.args # NoArgs /\ client # NoClient =>
        /\ calls[1].requests # <<>> => ValidatedArgs(op.name, op.args)
        /\ op.stage = "done" /\ ~ValidatedArgs(op.name, op.args) =>
               op.error.code = "InvalidParams" /\ calls[1].requests = <<>>

\* where the adapter's path template puts the parameter a response field repeats
PathIndex(adapter, field) ==
    CASE field = "altitude" -> IF adapter = "getAbove" THEN 7 ELSE 9
      [] field = "search_radius" -> 9
      [] field = "prediction_days" -> 11
      [] field = "min_elevation" -> 13

\* a tool handler returned a response
ToolReturned == op.entry = "tool" /\ op.stage = "done" /\ op.error = NoError

\* C23: every query parameter repeated in a tool response (observer altitude,
\* search_radius, prediction_days, min_elevation) equals the value embedded in
\* the upstream request path of that call, for supplied values (an explicit 0
\* included) and for omitted ones.
C23_EchoEqualsPath ==
    ToolReturned =>
        \A field \in DOMAIN op.result[2].echo :
            NumStr(op.result[2].echo[field])
                = calls[1].requests[1][PathIndex(op.adapter, field)]

\* a CallTool request naming none of the seven tools has ended
UnknownToolDone == op.entry = "tool" /\ op.stage = "done" /\ op.name \notin ToolNames

C25_OneClientPerProcess ==
    /\ [](/\ ctor.count <= 1
          /\ client # NoClient <=> ctor.count = 1
          /\ client # NoClient =>
                /\ ~IsFalsyKey(client.apiKey)
                /\ client.apiKey = env
                /\ \A i \in DOMAIN calls[1].requests :
                       calls[1].requests[i][Len(calls[1].requests[i])] = client.apiKey)
    /\ [][client # NoClient => client' = client /\ ctor' = ctor]_vars
    /\ [](IsFalsyKey(env) =>
            /\ client = NoClient
            /\ ctor.count = 0
            /\ calls[1].requests = <<>>
            /\ op.stage = "done" => op.error.code = "InvalidRequest")

C25_Witness ==
    /\ ctor.count = 1
    /\ client # NoClient
    /\ op.entry = "resource"
    /\ op.stage = "done"
    /\ op.error.text = "Unsupported resource URI"

\* a satellite:// read that issued its two queries has ended
SatelliteRead ==
    op.entry = "resource" /\ op.stage = "done" /\ Terminal(1) /\ Terminal(2)

C27_BothFailedNoDataFound ==
    SatelliteRead /\ calls[1].pc = "failed" /\ calls[2].pc = "failed" =>
        /\ op.error = McpError("InvalidRequest", "No data found for satellite with NORAD ID",
                               <<op.params.noradId>>)
        /\ op.error # calls[1].error
        /\ op.error # calls[2].error
        /\ op.result = IdleOp.result

C27_Witness ==
    /\ SatelliteRead
    /\ calls[1].pc = "failed" /\ calls[1].response.status = 401
    /\ calls[2].pc = "failed" /\ calls[2].response.status = 0
    /\ op.error.text = "No data found for satellite with NORAD ID"

\* the upstream answered the tool's query 200 with an empty or absent result
EmptyUpstream ==
    /\ op.entry = "tool"
    /\ op.stage = "done"
    /\ calls[1].pc = "success"
    /\ IF op.adapter = "getTLE" THEN Falsy(calls[1].data.tle)
       ELSE EmptyList(ListFieldOf(op.adapter, calls[1].data))

\* C28: when the upstream query succeeds with an empty or absent result,
\* get_satellite_position and get_satellite_tle fail with InvalidRequest
\* ('No ... data found'), while predict_visual_passes, predict_radio_passes,
\* get_satellites_above and both search tools return a success response with
\* an empty list; in neither case is another upstream request sent.
C28_EmptyResultHandling ==
    EmptyUpstream =>
        /\ Len(calls[1].requests) = Len(calls[1].statuses)
        /\ calls[1].statuses[Len(calls[1].statuses)] = 200
        /\ op.name = "get_satellite_position" =>
              /\ op.error = McpError("InvalidRequest",
                                     "No position data found for satellite with NORAD ID", <<>>)
              /\ op.result = IdleOp.result
        /\ op.name = "get_satellite_tle" =>
              /\ op.error = McpError("InvalidRequest",
                                     "No TLE data found for satellite with NORAD ID", <<>>)
              /\ op.result = IdleOp.result
        /\ op.name \notin {"get_satellite_position", "get_satellite_tle"} =>
              /\ op.error = NoError
              /\ op.result[2].content = List(<<>>)

C28_Witness ==
    /\ EmptyUpstream
    /\ op.name = "get_satellite_position"
    /\ calls[1].data.positions = Undef
    /\ Len(calls[1].requests) = 2
    /\ op.error.code = "InvalidRequest"

====
